---- MODULE Spec2Model ----
(***************************************************************************)
(* Model of post_to_facebook.py: one scheduled run loads state.json,       *)
(* fetches the coupon feed, keeps the valid coupons, sorts them, selects   *)
(* the next unposted coupon (or resets), posts it, and on a confirmed post *)
(* rewrites state.json and pushes it.                                      *)
(***************************************************************************)
EXTENDS Integers, Sequences, FiniteSets, TLC

\* ---------------------------------------------------------------- bounds
MaxFeed == 3        \* longest feed returned by the coupons API
MaxRuns == 4        \* longest recorded streak of consecutive committed runs
MaxNow == 2         \* the clock runs from 1 to MaxNow
FACEBOOK_MESSAGE_MAX == 100   \* the message ceiling, 60000 in the source

\* ---------------------------------------------------------------- values
\* JSON values of the id / visibility keys, encoded as integers:
\*   NoneV      the key is absent or null (Python None)
\*   BadV       a string int() cannot convert ("abc")
\*   0..9       a JSON number
\*   StrV(n)    the JSON string of the number n ("3")
NoneV == -1
BadV == -2
StrBase == 10
StrV(n) == StrBase + n

\* Python truthiness of such a value: None and 0 are falsy, every non-empty
\* string (also "0") is truthy.
Truthy(v) == v # NoneV /\ v # 0

\* int(v): raises ValueError on a non-numeric string, TypeError on None.
IntRaises(v) == v = BadV \/ v = NoneV
int(v) == IF v >= StrBase THEN v - StrBase ELSE v

\* Timestamps: a key that is absent/empty, a string dateutil cannot parse, or
\* a parsed datetime at time t that is timezone-naive or timezone-aware.
TNone == [k |-> "none", t |-> 0]
TBad == [k |-> "bad", t |-> 0]
Naive(n) == [k |-> "naive", t |-> n]
Aware(n) == [k |-> "aware", t |-> n]

\* "1970-01-01", the default of sort_key, is time 0; the clock starts at 1.
Epoch == 0

\* store: "absent" (no key), "null" (JSON null), "empty" (an object without
\* logo_url), "logo" (an object with logo_url).  logo_url: the coupon's own
\* logo field is present and non-empty.
\* text: the display fields, each a string (a sequence of characters);
\* a key that is absent, null or "" is the empty string, as c.get(k) or "".
NoText ==
    [title |-> <<>>, discount_text |-> <<>>, code |-> <<>>, countries |-> <<>>,
     note |-> <<>>, purchase_link |-> <<>>]
Coupon(cid, id, vis, exp, cre, st, logo) ==
    [coupon_id |-> cid, id |-> id, is_visible |-> vis, expires_at |-> exp,
     created_at |-> cre, store |-> st, logo_url |-> logo, text |-> NoText]

\* The coupons a feed is built from.
Coupons ==
    { Coupon(1, NoneV, 1, TNone, Naive(1), "absent", FALSE),
      Coupon(StrV(2), NoneV, StrV(1), Naive(2), Naive(2), "absent", TRUE),
      Coupon(NoneV, 3, 1, TNone, TNone, "logo", TRUE),
      Coupon(1, 3, 1, TNone, Naive(3), "empty", FALSE),
      Coupon(NoneV, NoneV, 1, TNone, Naive(2), "absent", FALSE),
      Coupon(BadV, NoneV, 1, TNone, Naive(1), "absent", FALSE),
      Coupon(2, NoneV, 1, TNone, Naive(1), "null", FALSE),
      Coupon(3, NoneV, 0, TNone, Naive(1), "absent", FALSE),
      Coupon(3, NoneV, NoneV, TNone, Naive(1), "absent", FALSE),
      Coupon(3, NoneV, BadV, TNone, Naive(1), "absent", FALSE),
      Coupon(3, NoneV, 1, TBad, Naive(1), "absent", FALSE),
      Coupon(3, NoneV, 1, Aware(3), TBad, "absent", FALSE) }

RECURSIVE SeqsUpTo(_, _)
SeqsUpTo(S, n) ==
    IF n = 0 THEN {<<>>}
    ELSE LET shorter == SeqsUpTo(S, n - 1)
         IN shorter \cup {Append(s, x) : s \in {q \in shorter : Len(q) = n - 1}, x \in S}

Feeds == SeqsUpTo(Coupons, MaxFeed)

\* The feeds of one visible coupon with every combination of display fields:
\* each field absent or one character long, a title that can be as long as
\* the message ceiling, and an expiry of every kind.
Chars(n, ch) == [i \in 1..n |-> ch]
FieldTexts == {<<>>, <<"a">>}
TitleTexts == FieldTexts \cup {Chars(FACEBOOK_MESSAGE_MAX, "a")}
Texts ==
    [title : TitleTexts, discount_text : FieldTexts, code : FieldTexts,
     countries : FieldTexts, note : FieldTexts, purchase_link : FieldTexts]
MessageCoupons ==
    { [Coupon(1, NoneV, 1, exp, Naive(1), "absent", FALSE) EXCEPT !.text = x] :
          exp \in {TNone, TBad, Naive(3), Aware(3)}, x \in Texts }
MessageFeeds == {<<c>> : c \in MessageCoupons}

\* ---------------------------------------------------------------- pure functions
\* int(c.get("coupon_id") or c.get("id") or 0)
RawId(c) ==
    IF Truthy(c.coupon_id) THEN c.coupon_id
    ELSE IF Truthy(c.id) THEN c.id
    ELSE 0
IdRaises(c) == IntRaises(RawId(c))
CouponId(c) == int(RawId(c))

\* A validity check that also accepts an expiry equal to the current time.
is_valid_coupon_at_or_after(c, t) ==
    IF c.is_visible = NoneV THEN FALSE
    ELSE IF IntRaises(c.is_visible) THEN FALSE
    ELSE IF int(c.is_visible) # 1 THEN FALSE
    ELSE IF c.expires_at.k = "none" THEN TRUE
    ELSE IF c.expires_at.k = "bad" THEN FALSE
    ELSE c.expires_at.t >= t

\* is_valid_coupon at time t; every exception is caught and gives False.  A
\* missing is_visible defaults to 0, a null one makes int() raise; a naive
\* expiry is read as UTC.
is_valid_coupon(c, t) ==
    IF c.is_visible = NoneV THEN FALSE
    ELSE IF IntRaises(c.is_visible) THEN FALSE
    ELSE IF int(c.is_visible) # 1 THEN FALSE
    ELSE IF c.expires_at.k = "none" THEN TRUE
    ELSE IF c.expires_at.k = "bad" THEN FALSE
    ELSE c.expires_at.t > t

\* sort_key at time t: the parsed created_at, else expires_at, else 1970;
\* an unparseable string gives the timezone-aware current time.
sort_key(c, t) ==
    LET s == IF c.created_at.k # "none" THEN c.created_at
             ELSE IF c.expires_at.k # "none" THEN c.expires_at
             ELSE Naive(Epoch)
    IN IF s.k = "bad" THEN Aware(t) ELSE s

\* Comparing a naive with an aware datetime raises TypeError; a comparison
\* sort of two or more keys compares some naive key with some aware key as
\* soon as both kinds occur.
SortRaises(s, t) ==
    \E i, j \in 1..Len(s) : sort_key(s[i], t).k # sort_key(s[j], t).k

\* An insertion that puts a coupon before the coupons of equal key.
RECURSIVE InsertByKeyUnstable(_, _, _)
InsertByKeyUnstable(c, s, t) ==
    IF s = <<>> THEN <<c>>
    ELSE IF sort_key(c, t).t <= sort_key(Head(s), t).t THEN <<c>> \o s
    ELSE <<Head(s)>> \o InsertByKeyUnstable(c, Tail(s), t)

RECURSIVE InsertByKey(_, _, _)
InsertByKey(c, s, t) ==
    IF s = <<>> THEN <<c>>
    ELSE IF sort_key(c, t).t < sort_key(Head(s), t).t THEN <<c>> \o s
    ELSE <<Head(s)>> \o InsertByKey(c, Tail(s), t)

\* sorted(valid, key=sort_key): ascending and stable.
RECURSIVE sorted_by_key(_, _)
sorted_by_key(s, t) ==
    IF s = <<>> THEN <<>>
    ELSE InsertByKey(s[Len(s)], sorted_by_key(SubSeq(s, 1, Len(s) - 1), t), t)

\* A list of the published ids in descending order.
RECURSIVE SortedListDescending(_)
SortedListDescending(S) ==
    IF S = {} THEN <<>>
    ELSE LET m == CHOOSE x \in S : \A y \in S : x >= y
         IN <<m>> \o SortedListDescending(S \ {m})

\* sorted(list(published_ids))
RECURSIVE SortedList(_)
SortedList(S) ==
    IF S = {} THEN <<>>
    ELSE LET m == CHOOSE x \in S : \A y \in S : x <= y
         IN <<m>> \o SortedList(S \ {m})

Range(s) == {s[i] : i \in 1..Len(s)}

\* A loop that stops on the first coupon whatever its id.
LoopStopFirst(vs, pub) == IF vs = <<>> THEN 0 ELSE 1

\* The for loop of main: the position at which the loop stops, either on a
\* coupon whose id is not published or on one whose id int() rejects; 0 when
\* the loop runs to the end.
LoopStop(vs, pub) ==
    LET stops == {i \in 1..Len(vs) : IdRaises(vs[i]) \/ CouponId(vs[i]) \notin pub}
    IN IF stops = {} THEN 0 ELSE CHOOSE i \in stops : \A j \in stops : i <= j

\* photo_url = next_coupon.get("store", {}).get("logo_url") or
\*             next_coupon.get("logo_url") or ""
PhotoRaises(c) == c.store = "null"

\* A photo_url that prefers the coupon's own logo.
PhotoUrlOwnFirst(c) ==
    IF c.logo_url THEN "own"
    ELSE IF c.store = "logo" THEN "store"
    ELSE ""

PhotoUrl(c) ==
    IF c.store = "logo" THEN "store"
    ELSE IF c.logo_url THEN "own"
    ELSE ""

\* A test that takes every answered call for a confirmed post.
RespOkAnyBody(resp) == resp # "none"

\* resp and ("id" in resp or "post_id" in resp)
RespOk(resp) == resp = "ok"

\* An update that forgets the posted id.
AddPublishedNothing(pub, cid) == pub

\* published_ids.add(cid)
AddPublished(pub, cid) == pub \cup {cid}

\* A reset that keeps the published ids.
ResetPublishedKept(pub) == pub

\* published_ids = set() of the reset
ResetPublished(pub) == {}

\* make_message.  A label is its emoji, its words and the space before the
\* value, with the length it has in the source; a date is DD-MM-YYYY.
Label(mark, n) == <<mark>> \o Chars(n - 2, "_") \o <<" ">>
Footer1 == <<"more">> \o Chars(33, "_")
Footer2 == Chars(27, "u")
Footer == <<Footer1, Footer2>>
Whitespace == {" ", "\n"}

\* The two entries of parts for a field: its line and an empty line.
FieldParts(label, value) ==
    IF value = <<>> THEN <<>> ELSE <<label \o value, <<>>>>

\* dt.strftime("%d-%m-%Y"), or the raw string when it cannot be parsed
DateText(n) == <<"0", ToString(n), "-", "0", "1", "-", "1", "9", "7", "0">>
RawText == <<"s", "o", "o", "n">>
ExpiresFormatted(ts) == IF ts.k = "bad" THEN RawText ELSE DateText(ts.t)
ExpiresParts(ts) ==
    IF ts.k = "none" THEN <<>>
    ELSE <<Label("expires", 12) \o ExpiresFormatted(ts), <<>>>>

Parts(c) ==
    FieldParts(Label("title", 2), c.text.title)
    \o FieldParts(Label("discount", 2), c.text.discount_text)
    \o FieldParts(Label("code", 11), c.text.code)
    \o FieldParts(Label("countries", 11), c.text.countries)
    \o FieldParts(Label("note", 10), c.text.note)
    \o ExpiresParts(c.expires_at)
    \o FieldParts(Label("link", 15), c.text.purchase_link)
    \o Footer

\* "\n".join(parts)
RECURSIVE Join(_)
Join(parts) ==
    IF parts = <<>> THEN <<>>
    ELSE IF Len(parts) = 1 THEN parts[1]
    ELSE parts[1] \o <<"\n">> \o Join(Tail(parts))

\* str.strip()
RECURSIVE LStrip(_)
LStrip(m) == IF m # <<>> /\ m[1] \in Whitespace THEN LStrip(Tail(m)) ELSE m
RECURSIVE RStrip(_)
RStrip(m) ==
    IF m # <<>> /\ m[Len(m)] \in Whitespace
    THEN RStrip(SubSeq(m, 1, Len(m) - 1))
    ELSE m
Strip(m) == RStrip(LStrip(m))

\* A truncation that keeps FACEBOOK_MESSAGE_MAX characters before the marker.
TruncateLate(m) ==
    IF Len(m) > FACEBOOK_MESSAGE_MAX
    THEN SubSeq(m, 1, FACEBOOK_MESSAGE_MAX) \o <<".", ".", ".">>
    ELSE m

\* message[: FACEBOOK_MESSAGE_MAX - 3] + "..." when it is too long
Truncate(m) ==
    IF Len(m) > FACEBOOK_MESSAGE_MAX
    THEN SubSeq(m, 1, FACEBOOK_MESSAGE_MAX - 3) \o <<".", ".", ".">>
    ELSE m

make_message(c) == Truncate(Strip(Join(Parts(c))))

\* ---------------------------------------------------------------- state
VARIABLES
    file,       \* content of state.json
    feed,       \* what the coupons API returns when it answers
    now,        \* current UTC time
    run,        \* per process: the position and the locals of main
    hist,       \* the committed runs since the start, while no other run intervened
    dirty       \* some run did not commit, or the clock moved

vars == <<file, feed, now, run, hist, dirty>>

Procs == {1, 2}

AbsentFile == [kind |-> "absent", published_ids |-> <<>>, last_run |-> 0]
\* an empty or partly written file: json.load rejects every proper prefix
CorruptFile == [kind |-> "corrupt", published_ids |-> <<>>, last_run |-> 0]
JsonFile(ids, t) == [kind |-> "json", published_ids |-> ids, last_run |-> t]

IdleRun ==
    [pc |-> "idle", state |-> <<>>, last_run |-> 0, published_ids |-> {},
     coupons |-> <<>>, valid |-> <<>>, valid_sorted |-> <<>>,
     next_coupon |-> <<>>, reset |-> FALSE, photo_url |-> "",
     answer |-> "unset", message |-> <<>>, post |-> "none", nposts |-> 0, resp |-> "unset", writes |-> 0,
     sync |-> "none", file0 |-> AbsentFile, outcome |-> "none", exit |-> -1]

Init ==
    /\ file = AbsentFile
    /\ feed \in Feeds
    /\ now = 1
    /\ run = [p \in Procs |-> IdleRun]
    /\ hist = <<>>
    /\ dirty = FALSE

\* sys.exit(1) of an unconfirmed post
ExitFailed == 1

\* A missing configuration that exits like a failed publish.
ExitConfigAsFailed == ExitFailed

\* sys.exit(2) of the configuration check
ExitConfig == 2

\* sys.exit(code), or the end of main (code 0)
Exited(r, how, code) == [r EXCEPT !.pc = "done", !.outcome = how, !.exit = code]
\* an exception nothing catches: traceback, exit code 1
Aborted(r) == Exited(r, "aborted", 1)

Set(p, r) == run' = [run EXCEPT ![p] = r]

\* ---------------------------------------------------------------- a run
\* The module-level check of FACEBOOK_PAGE_ID / FACEBOOK_ACCESS_TOKEN passes
\* and main starts.
StartRun(p) ==
    /\ run[p].pc = "idle"
    /\ Set(p, [IdleRun EXCEPT !.pc = "load", !.file0 = file, !.outcome = "running"])
    /\ UNCHANGED <<file, feed, now, hist, dirty>>

\* One of the two variables is missing: sys.exit(2) before main is defined.
ConfigMissing(p) ==
    /\ run[p].pc = "idle"
    /\ Set(p, Exited([IdleRun EXCEPT !.file0 = file], "config", ExitConfig))
    /\ UNCHANGED <<file, feed, now, hist, dirty>>

\* state = load_state(STATE_FILE); published_ids = set(state.get(...))
LoadState(p) ==
    /\ run[p].pc = "load"
    /\ file.kind # "corrupt"
    /\ Set(p, [run[p] EXCEPT !.pc = "fetch",
                             !.file0 = file,
                             !.state = file.published_ids,
                             !.last_run = file.last_run,
                             !.published_ids = Range(file.published_ids)])
    /\ UNCHANGED <<file, feed, now, hist, dirty>>

\* json.load raises on a file that is not JSON; main does not catch it.
LoadStateRaises(p) ==
    /\ run[p].pc = "load"
    /\ file.kind = "corrupt"
    /\ Set(p, Aborted(run[p]))
    /\ UNCHANGED <<file, feed, now, hist, dirty>>

\* fetch_coupons: the list of the response, or [] on any failure or other
\* shape; then "if not coupons: sys.exit(0)".
FetchResult(answer, f) == IF answer = "list" THEN f ELSE <<>>

FetchCoupons(p) ==
    /\ run[p].pc = "fetch"
    /\ \E answer \in {"list", "error"} :
         LET coupons == FetchResult(answer, feed)
         IN Set(p, IF coupons = <<>>
                   THEN Exited([run[p] EXCEPT !.answer = answer], "noop", 0)
                   ELSE [run[p] EXCEPT !.pc = "filter", !.coupons = coupons,
                                       !.answer = answer])
    /\ UNCHANGED <<file, feed, now, hist, dirty>>

\* A filter that keeps every coupon.
IsValidUnfiltered(c) == TRUE

\* valid = [c for c in coupons if is_valid_coupon(c)]; exit 0 when empty
IsValidNow(c) == is_valid_coupon(c, now)

FilterValid(p) ==
    /\ run[p].pc = "filter"
    /\ LET valid == SelectSeq(run[p].coupons, IsValidNow)
       IN Set(p, IF valid = <<>>
                 THEN Exited(run[p], "noop", 0)
                 ELSE [run[p] EXCEPT !.pc = "sort", !.valid = valid])
    /\ UNCHANGED <<file, feed, now, hist, dirty>>

\* valid_sorted = sorted(valid, key=sort_key); the TypeError of a mixed
\* comparison is not caught.
SortValid(p) ==
    /\ run[p].pc = "sort"
    /\ Set(p, IF SortRaises(run[p].valid, now)
              THEN Aborted(run[p])
              ELSE [run[p] EXCEPT !.pc = "select",
                                  !.valid_sorted = sorted_by_key(run[p].valid, now)])
    /\ UNCHANGED <<file, feed, now, hist, dirty>>

\* The loop that finds the next unposted coupon, and the reset when it finds
\* none.  The ValueError of int() on a coupon the loop reaches is not caught.
SelectNext(p) ==
    /\ run[p].pc = "select"
    /\ LET vs == run[p].valid_sorted
           k == LoopStop(vs, run[p].published_ids)
       IN Set(p, IF k = 0
                 THEN [run[p] EXCEPT !.pc = "publish", !.published_ids = ResetPublished(run[p].published_ids),
                                     !.state = <<>>, !.reset = TRUE,
                                     !.next_coupon = <<vs[1]>>]
                 ELSE IF IdRaises(vs[k]) THEN Aborted(run[p])
                 ELSE [run[p] EXCEPT !.pc = "publish", !.next_coupon = <<vs[k]>>])
    /\ UNCHANGED <<file, feed, now, hist, dirty>>

\* What the Graph API call gives back to main: "ok" a body with id or
\* post_id, "noid" a JSON body with neither, "none" a failed call (None).
Resps == {"ok", "noid", "none"}

\* photo_url, message, one call of post_to_facebook_with_photo or
\* post_to_facebook_text_only, and the test of resp; sys.exit(1) when the
\* post is not confirmed.  The AttributeError of a null store is not caught.
Publish(p) ==
    /\ run[p].pc = "publish"
    /\ LET c == run[p].next_coupon[1]
       IN IF PhotoRaises(c)
          THEN Set(p, Aborted(run[p]))
          ELSE \E resp \in Resps :
                 LET called == [run[p] EXCEPT
                                   !.photo_url = PhotoUrl(c),
                                   !.message = make_message(c),
                                   !.post = IF PhotoUrl(c) # "" THEN "photo" ELSE "text",
                                   !.nposts = @ + 1,
                                   !.resp = resp]
                 IN Set(p, IF RespOk(resp)
                           THEN [called EXCEPT !.pc = "save_open"]
                           ELSE Exited(called, "failed", ExitFailed))
    /\ UNCHANGED <<file, feed, now, hist, dirty>>

\* A save that first merges the ids another run wrote to the file.
SaveOpenMerging(p) ==
    /\ run[p].pc = "save_open"
    /\ LET cid == CouponId(run[p].next_coupon[1])
           pub == AddPublished(run[p].published_ids, cid)
                      \cup Range(file.published_ids)
           marked == [run[p] EXCEPT !.published_ids = pub,
                                    !.state = SortedList(pub),
                                    !.last_run = now]
       IN \E opened \in BOOLEAN :
            IF opened
            THEN /\ file' = CorruptFile
                 /\ Set(p, [marked EXCEPT !.pc = "save_dump", !.writes = @ + 1])
            ELSE /\ file' = file
                 /\ Set(p, Exited(marked, "unsaved", 0))
    /\ UNCHANGED <<feed, now, hist, dirty>>

\* cid, published_ids.add(cid), state[...] = ..., then save_state opens the
\* file with mode "w", which truncates it.  An OSError of open is caught by
\* the except of main: the run ends with exit code 0.
SaveOpen(p) ==
    /\ run[p].pc = "save_open"
    /\ LET cid == CouponId(run[p].next_coupon[1])
           pub == AddPublished(run[p].published_ids, cid)
           marked == [run[p] EXCEPT !.published_ids = pub,
                                    !.state = SortedList(pub),
                                    !.last_run = now]
       IN \E opened \in BOOLEAN :
            IF opened
            THEN /\ file' = CorruptFile
                 /\ Set(p, [marked EXCEPT !.pc = "save_dump", !.writes = @ + 1])
            ELSE /\ file' = file
                 /\ Set(p, Exited(marked, "unsaved", 0))
    /\ UNCHANGED <<feed, now, hist, dirty>>

\* json.dump writes the state into the open file.  When it raises part way
\* (a full disk) the file stays partly written and the except of main
\* catches the error.
SaveDump(p) ==
    /\ run[p].pc = "save_dump"
    /\ \E written \in BOOLEAN :
         IF written
         THEN /\ file' = JsonFile(run[p].state, run[p].last_run)
              /\ Set(p, [run[p] EXCEPT !.pc = "sync"])
         ELSE /\ file' = file
              /\ Set(p, Exited(run[p], "unsaved", 0))
    /\ UNCHANGED <<feed, now, hist, dirty>>

\* The process is killed between the open and the end of json.dump.
Interrupt(p) ==
    /\ run[p].pc = "save_dump"
    /\ Set(p, [run[p] EXCEPT !.pc = "done", !.outcome = "killed"])
    /\ UNCHANGED <<file, feed, now, hist, dirty>>

\* How git_commit_and_push ends: "pushed" every git command succeeded,
\* "failed" one of them exited non-zero (CalledProcessError, caught and
\* logged at lines 53-54), "raised" git could not be started (an OSError,
\* which passes line 53 and is caught by the except of main at line 256).
SyncResults == {"pushed", "failed", "raised"}

\* A sync whose failure ends the run like an uncaught exception.
SyncEndFatal(r, s) ==
    IF s = "pushed" THEN Exited([r EXCEPT !.sync = s], "committed", 0)
    ELSE Aborted([r EXCEPT !.sync = s])

\* The run after git_commit_and_push: main reaches its end, exit code 0.
SyncEnd(r, s) == Exited([r EXCEPT !.sync = s], "committed", 0)

\* A sync that is also started before save_state.
GitCommitAndPushEarly(p) ==
    /\ run[p].pc \in {"save_open", "sync"}
    /\ \E s \in SyncResults :
           Set(p, IF run[p].pc = "sync" THEN SyncEnd(run[p], s)
                  ELSE [run[p] EXCEPT !.sync = s])
    /\ UNCHANGED <<file, feed, now, hist, dirty>>

\* git_commit_and_push: a failing git command is caught and logged.
GitCommitAndPush(p) ==
    /\ run[p].pc = "sync"
    /\ \E s \in SyncResults : Set(p, SyncEnd(run[p], s))
    /\ UNCHANGED <<file, feed, now, hist, dirty>>

\* The process is gone; the scheduler may start the next one.
Exit(p) ==
    /\ run[p].pc = "done"
    /\ Set(p, IdleRun)
    /\ IF run[p].outcome = "committed" /\ ~dirty /\ Len(hist) < MaxRuns
       THEN /\ hist' = Append(hist, [cid |-> CouponId(run[p].next_coupon[1]),
                                     reset |-> run[p].reset,
                                     n |-> Len(run[p].valid_sorted),
                                     k |-> IF run[p].reset THEN 1
                                           ELSE LoopStop(run[p].valid_sorted,
                                                         Range(run[p].file0.published_ids))])
            /\ dirty' = FALSE
       ELSE /\ hist' = <<>>
            /\ dirty' = TRUE
    /\ UNCHANGED <<file, feed, now>>

\* Time passes between two runs.
Tick ==
    /\ \A p \in Procs : run[p].pc = "idle"
    /\ now < MaxNow
    /\ now' = now + 1
    /\ hist' = <<>>
    /\ dirty' = TRUE
    /\ UNCHANGED <<file, feed, run>>

Step(p) ==
    \/ StartRun(p)
    \/ ConfigMissing(p)
    \/ LoadState(p)
    \/ LoadStateRaises(p)
    \/ FetchCoupons(p)
    \/ FilterValid(p)
    \/ SortValid(p)
    \/ SelectNext(p)
    \/ Publish(p)
    \/ SaveOpen(p)
    \/ SaveDump(p)
    \/ Interrupt(p)
    \/ GitCommitAndPush(p)
    \/ Exit(p)

\* Runs are scheduled one after the other: a single process.
Next == Step(1) \/ Tick

Spec == Init /\ [][Next]_vars

\* Two processes running the script at the same time on the same checkout:
\* nothing in the script takes a lock, so their steps interleave freely.
OverlapCoupons ==
    { Coupon(1, NoneV, 1, TNone, Naive(1), "absent", FALSE),
      Coupon(NoneV, 3, 1, TNone, Naive(3), "logo", TRUE) }
OverlapFeeds == SeqsUpTo(OverlapCoupons, 2) \ {<<>>}
InitOverlap ==
    /\ file = AbsentFile
    /\ feed \in OverlapFeeds
    /\ now = 1
    /\ run = [p \in Procs |-> IdleRun]
    /\ hist = <<>>
    /\ dirty = FALSE
NextOverlap == (\E p \in Procs : Step(p)) \/ Tick
SpecOverlap == InitOverlap /\ [][NextOverlap]_vars

\* The same program on the feeds that exercise make_message.
InitMessage ==
    /\ file = AbsentFile
    /\ feed \in MessageFeeds
    /\ now = 1
    /\ run = [p \in Procs |-> IdleRun]
    /\ hist = <<>>
    /\ dirty = FALSE
SpecMessage == InitMessage /\ [][Next]_vars

\* ---------------------------------------------------------------- properties
\* The published set a run read from state.json.
Loaded(p) == Range(run[p].file0.published_ids)
\* The id of the coupon the run selected.
Cid(p) == CouponId(run[p].next_coupon[1])
\* The published set the selection step left in memory.
LeftBySelection(p) == IF run[p].reset THEN {} ELSE Loaded(p)
\* Every coupon of the ordered list has an id, and it is published.
AllPublished(vs, pub) ==
    \A i \in 1..Len(vs) : ~IdRaises(vs[i]) /\ CouponId(vs[i]) \in pub
\* The run ended by itself (an exit code), not by a signal.
Ended(p) == run[p].pc = "done" /\ run[p].outcome # "killed"

\* C1: after the selection step, the chosen coupon's id is not in the
\* published set the run loaded, unless every valid coupon's id is in it; in
\* that case the chosen coupon is the first of the ordered list and the
\* in-memory published set is empty.
C1_SelectionSkipsPublished ==
    \A p \in Procs :
        run[p].pc = "publish" =>
            LET vs == run[p].valid_sorted
                c == run[p].next_coupon[1]
            IN IF AllPublished(vs, Loaded(p))
               THEN c = vs[1] /\ run[p].published_ids = {}
               ELSE CouponId(c) \notin Loaded(p)

\* A reset over a list of two or more coupons with a non-empty published set.
C1_Witness ==
    \E p \in Procs :
        /\ run[p].pc = "publish"
        /\ run[p].reset
        /\ Len(run[p].valid_sorted) >= 2
        /\ Loaded(p) # {}

\* C2 as claimed: a run writes state.json at most once, writes it if and only
\* if the publish call returned a body with id or post_id, and the write adds
\* the id of exactly the posted coupon.
C2_WrittenIffPublished ==
    \A p \in Procs :
        Ended(p) =>
            /\ run[p].writes <= 1
            /\ run[p].writes = 1 <=> run[p].resp = "ok"
            /\ run[p].writes = 1 =>
                   /\ file.kind = "json"
                   /\ Cid(p) \in Range(file.published_ids)
                   /\ Range(file.published_ids) \ {Cid(p)} \subseteq Loaded(p)

\* C2 as amended: a run writes state.json at most once and only after the
\* publish call returned a body with id or post_id; when the state update
\* completes without an exception the file is written exactly once and holds
\* the id of the posted coupon and no other id that was not loaded.
C2_WrittenOnlyWhenPublished ==
    \A p \in Procs :
        /\ run[p].writes <= 1
        /\ run[p].writes >= 1 => run[p].resp = "ok"
        /\ run[p].pc = "done" /\ run[p].outcome = "committed" =>
               /\ run[p].resp = "ok"
               /\ run[p].writes = 1
               /\ file.kind = "json"
               /\ Cid(p) \in Range(file.published_ids)
               /\ Range(file.published_ids) \ {Cid(p)} \subseteq Loaded(p)
        /\ run[p].pc = "done" /\ run[p].resp # "ok" => run[p].writes = 0

\* A committed run that added an id to a non-empty loaded set.
C2_Witness ==
    \E p \in Procs :
        /\ run[p].pc = "done"
        /\ run[p].outcome = "committed"
        /\ ~run[p].reset
        /\ Loaded(p) # {}
        /\ Cid(p) \notin Loaded(p)

\* C3: from an empty published set, with a fixed feed of n valid coupons and
\* every run committing, the first n runs post n different ids without a
\* reset, and run n+1 resets.
C3_CyclesOnceBeforeReset ==
    ~dirty /\ hist # <<>> =>
        LET n == hist[1].n
        IN /\ \A i \in 1..Len(hist) : i <= n => ~hist[i].reset
           /\ \A i, j \in 1..Len(hist) : i < j /\ j <= n => hist[i].cid # hist[j].cid
           /\ Len(hist) > n => hist[n + 1].reset

\* C4: a run whose post call failed or returned a body without id or post_id
\* ends with a non-zero exit code and leaves state.json as it was at the
\* start of the run, also when the reset had cleared the in-memory set.
C4_FailedPublishKeepsState ==
    \A p \in Procs :
        run[p].pc = "done" /\ run[p].nposts > 0 /\ run[p].resp # "ok" =>
            /\ run[p].exit > 0
            /\ file = run[p].file0

\* A failed post after a reset.
C4_Witness ==
    \E p \in Procs :
        /\ run[p].pc = "done"
        /\ run[p].resp = "noid"
        /\ run[p].reset
        /\ Loaded(p) # {}
        /\ run[p].published_ids = {}

\* C5: a run whose fetch failed, returned an empty list, or returned no
\* valid coupon ends with exit code 0, makes no post call and leaves
\* state.json unchanged.
C5_NothingToPost ==
    \A p \in Procs :
        /\ run[p].pc = "done"
        /\ run[p].answer # "unset"
        /\ \/ run[p].answer = "error"
           \/ \A i \in 1..Len(feed) : ~is_valid_coupon(feed[i], now)
        => /\ run[p].exit = 0
           /\ run[p].nposts = 0
           /\ run[p].writes = 0
           /\ file = run[p].file0

\* A non-empty feed without a valid coupon, met with a non-empty state file.
C5_Witness ==
    \E p \in Procs :
        /\ run[p].pc = "done"
        /\ run[p].answer = "list"
        /\ feed # <<>>
        /\ \A i \in 1..Len(feed) : ~is_valid_coupon(feed[i], now)
        /\ run[p].file0.kind = "json"

\* C6 as claimed: after a run whose publish succeeded, the persisted set is
\* the set the selection step left plus the posted id.
C6_PersistedAfterPublish ==
    \A p \in Procs :
        Ended(p) /\ run[p].resp = "ok" =>
            /\ file.kind = "json"
            /\ Range(file.published_ids) = LeftBySelection(p) \cup {Cid(p)}

\* C6 as amended: after a run whose publish succeeded and whose state update
\* completed without an exception, the persisted set is the set the
\* selection step left plus the posted id: the loaded set plus that id, or
\* after a reset the singleton of the first coupon's id.
C6_PersistedAfterCommit ==
    \A p \in Procs :
        run[p].pc = "done" /\ run[p].outcome = "committed" =>
            /\ file.kind = "json"
            /\ Range(file.published_ids) = LeftBySelection(p) \cup {Cid(p)}
            /\ run[p].reset =>
                   file.published_ids = <<CouponId(run[p].valid_sorted[1])>>
            /\ ~run[p].reset =>
                   Range(file.published_ids) = Loaded(p) \cup {Cid(p)}

\* A committed run that reset a set of two or more ids.
C6_Witness ==
    \E p \in Procs :
        /\ run[p].pc = "done"
        /\ run[p].outcome = "committed"
        /\ run[p].reset
        /\ Cardinality(Loaded(p)) >= 2
        /\ Len(file.published_ids) = 1

\* C7: a run that selected a coupon made exactly one post call, a run that
\* selected none made none, and no run makes two.
C7_ExactlyOnePostCall ==
    \A p \in Procs :
        /\ run[p].nposts <= 1
        /\ Ended(p) /\ run[p].next_coupon # <<>> => run[p].nposts = 1
        /\ Ended(p) /\ run[p].next_coupon = <<>> => run[p].nposts = 0

\* C8: a run that finds state.json unparseable goes on to the fetch with the
\* default empty state.
C8_CorruptStateDegrades ==
    \A p \in Procs :
        /\ run[p].pc = "done"
        /\ run[p].outcome # "config"
        /\ run[p].file0.kind = "corrupt"
        => /\ run[p].answer # "unset"
           /\ run[p].outcome # "aborted"

\* C9: once the feed is fetched, no coupon of it aborts the run: the run
\* ends as a no-op, committed or failed, never by an uncaught exception.
C9_MalformedCouponSkipped ==
    \A p \in Procs :
        run[p].pc = "done" /\ run[p].answer # "unset" =>
            run[p].outcome # "aborted"

\* C10: when the run is interrupted during the save, state.json holds the
\* complete previous state or the complete new state.
C10_AtomicSave ==
    \A p \in Procs :
        run[p].outcome = "killed" =>
            \/ file = run[p].file0
            \/ file = JsonFile(run[p].state, run[p].last_run)

\* C11: after a confirmed post and a completed save, a failure of
\* git_commit_and_push does not end the run with an error: the exit code is
\* 0 and state.json holds the posted id.
C11_SyncFailureNotFatal ==
    \A p \in Procs :
        run[p].pc = "done" /\ run[p].sync \in {"failed", "raised"} =>
            /\ run[p].exit = 0
            /\ file.kind = "json"
            /\ Cid(p) \in Range(file.published_ids)

\* A run whose push failed after it had saved the posted id.
C11_Witness ==
    \E p \in Procs :
        /\ run[p].pc = "done"
        /\ run[p].sync = "failed"
        /\ run[p].resp = "ok"
        /\ run[p].writes = 1

\* C12: a run without page id or access token ends before it reads the
\* state, fetches the feed or posts, with an exit code that is not 0 and is
\* not the exit code of a run whose post was not confirmed.
C12_ConfigExitDistinct ==
    \A p \in Procs :
        /\ run[p].pc = "done" /\ run[p].nposts > 0 /\ run[p].resp # "ok" =>
               run[p].exit = ExitFailed
        /\ run[p].pc = "done" /\ run[p].outcome = "config" =>
               /\ run[p].exit > 0
               /\ run[p].exit # ExitFailed
               /\ run[p].state = <<>> /\ run[p].published_ids = {}
               /\ run[p].answer = "unset" /\ run[p].coupons = <<>>
               /\ run[p].nposts = 0 /\ run[p].writes = 0
               /\ file = run[p].file0

\* A run without configuration that found a state file with published ids.
C12_Witness ==
    \E p \in Procs :
        /\ run[p].pc = "done"
        /\ run[p].outcome = "config"
        /\ file.kind = "json"
        /\ file.published_ids # <<>>

\* The timestamps of a coupon that dateutil can parse.
Parsed(ts) == ts.k \in {"naive", "aware"}
\* The coupon has no timestamp that can be used: both are absent or unparseable.
NoTimestamp(c) == ~Parsed(c.created_at) /\ ~Parsed(c.expires_at)
\* The effective timestamp as claimed: creation, else expiry, else now.
ClaimedTimestamp(c, t) ==
    IF Parsed(c.created_at) THEN c.created_at.t
    ELSE IF Parsed(c.expires_at) THEN c.expires_at.t
    ELSE t
\* The effective timestamp of the code: creation, else expiry, else 1970;
\* the first of the two strings that is present decides, and now stands for
\* it when it cannot be parsed.
EffectiveTimestamp(c, t) ==
    IF c.created_at.k # "none"
    THEN (IF Parsed(c.created_at) THEN c.created_at.t ELSE t)
    ELSE IF c.expires_at.k # "none"
    THEN (IF Parsed(c.expires_at) THEN c.expires_at.t ELSE t)
    ELSE Epoch
Perms(n) == {f \in [1..n -> 1..n] : \A i, j \in 1..n : f[i] = f[j] => i = j}

\* C13 as claimed: the ordered list is ascending by the claimed effective
\* timestamp and the coupons without a usable timestamp come last.
C13_SortedUndatedLast ==
    \A p \in Procs :
        LET vs == run[p].valid_sorted
        IN /\ \A i, j \in 1..Len(vs) :
                  i < j => ClaimedTimestamp(vs[i], now) <= ClaimedTimestamp(vs[j], now)
           /\ \A i, j \in 1..Len(vs) :
                  i < j /\ NoTimestamp(vs[i]) => NoTimestamp(vs[j])

\* C13 as amended: the ordered list is the list of valid coupons rearranged,
\* ascending by the effective timestamp (creation, else expiry, else 1970,
\* now for an unparseable string), coupons of equal timestamp in input order.
C13_SortedUndatedFirst ==
    \A p \in Procs :
        LET vs == run[p].valid_sorted
            v == run[p].valid
        IN vs # <<>> =>
            /\ Len(vs) = Len(v)
            /\ \A i, j \in 1..Len(vs) :
                   i < j => EffectiveTimestamp(vs[i], now) <= EffectiveTimestamp(vs[j], now)
            /\ \E f \in Perms(Len(vs)) :
                   /\ \A i \in 1..Len(vs) : vs[i] = v[f[i]]
                   /\ \A i, j \in 1..Len(vs) :
                          /\ i < j
                          /\ EffectiveTimestamp(vs[i], now) = EffectiveTimestamp(vs[j], now)
                          => f[i] < f[j]

\* The sort moved a coupon without any timestamp in front of a dated one.
C13_Witness ==
    \E p \in Procs :
        LET vs == run[p].valid_sorted
        IN /\ Len(vs) >= 2
           /\ vs # run[p].valid
           /\ vs[1].created_at.k = "none" /\ vs[1].expires_at.k = "none"
           /\ Parsed(vs[2].created_at)

\* C14 as claimed: the photo of a post is the coupon's own logo when it has
\* one, the store's logo only when it has none, and the post is text-only
\* exactly when there is neither.
C14_OwnLogoFirst ==
    \A p \in Procs :
        run[p].nposts > 0 =>
            LET c == run[p].next_coupon[1]
            IN /\ c.logo_url => run[p].photo_url = "own"
               /\ ~c.logo_url /\ c.store = "logo" => run[p].photo_url = "store"
               /\ run[p].post = "text" <=> ~c.logo_url /\ c.store # "logo"

\* C14 as amended: the photo of a post is the store's logo when the store
\* has one, the coupon's own logo only when the store has none, and the post
\* is text-only exactly when there is neither.
C14_StoreLogoFirst ==
    \A p \in Procs :
        run[p].nposts > 0 =>
            LET c == run[p].next_coupon[1]
            IN /\ c.store = "logo" => run[p].photo_url = "store"
               /\ c.store # "logo" /\ c.logo_url => run[p].photo_url = "own"
               /\ run[p].post = "text" <=> ~c.logo_url /\ c.store # "logo"
               /\ run[p].post = "photo" <=> run[p].photo_url # ""
               /\ run[p].post \in {"photo", "text"}

\* A post of a coupon that has both logos.
C14_Witness ==
    \E p \in Procs :
        /\ run[p].nposts > 0
        /\ run[p].next_coupon[1].logo_url
        /\ run[p].next_coupon[1].store = "logo"
        /\ run[p].post = "photo"

\* The validity of a coupon as the contract words it.
VisibleFlag(c) == c.is_visible \in {1, StrV(1)}
ExpiryAbsent(c) == c.expires_at.k = "none"
ExpiryAfter(c, t) == Parsed(c.expires_at) /\ c.expires_at.t > t
ClaimedValid(c, t) == VisibleFlag(c) /\ (ExpiryAbsent(c) \/ ExpiryAfter(c, t))
ClaimedValidNow(c) == ClaimedValid(c, now)

\* C15: the filter step keeps exactly the coupons whose visibility flag is
\* present and true and whose expiry is absent or strictly after the current
\* time, in feed order; a missing or false flag, an expiry at or before the
\* current time and an unparseable expiry all exclude the coupon.
C15_ValidExactly ==
    [][\A p \in Procs :
          run[p].pc = "filter" /\ run'[p].pc # "filter" =>
              /\ run'[p].valid = SelectSeq(run[p].coupons, ClaimedValidNow)
              /\ \A i \in 1..Len(run[p].coupons) :
                     LET c == run[p].coupons[i]
                     IN is_valid_coupon(c, now) <=> ClaimedValid(c, now)]_vars

\* The filter has just dropped a visible coupon whose expiry equals the
\* current time and kept another coupon.
C15_Witness ==
    \E p \in Procs :
        /\ run[p].pc = "sort"
        /\ \E i \in 1..Len(run[p].coupons) :
               LET c == run[p].coupons[i]
               IN /\ VisibleFlag(c)
                  /\ Parsed(c.expires_at)
                  /\ c.expires_at.t = now
                  /\ c \notin Range(run[p].valid)

\* What the contract of make_message says about the message m of a coupon c.
LineStart(m, i) == i = 1 \/ m[i - 1] = "\n"
HasLine(m, mark) == \E i \in 1..Len(m) : m[i] = mark /\ LineStart(m, i)
EndsWith(m, t) ==
    Len(m) >= Len(t) /\ SubSeq(m, Len(m) - Len(t) + 1, Len(m)) = t
FooterText == Footer1 \o <<"\n">> \o Footer2
Marker == <<".", ".", ".">>
LineLen(n, value) == IF value = <<>> THEN 0 ELSE n + Len(value) + 2
ExpiresLen(ts) ==
    IF ts.k = "none" THEN 0
    ELSE IF ts.k = "bad" THEN 12 + Len(RawText) + 2
    ELSE 12 + 10 + 2
FullLen(c) ==
    LineLen(2, c.text.title) + LineLen(2, c.text.discount_text)
    + LineLen(11, c.text.code) + LineLen(11, c.text.countries)
    + LineLen(10, c.text.note) + ExpiresLen(c.expires_at)
    + LineLen(15, c.text.purchase_link) + Len(FooterText)
MessageOk(c, m) ==
    /\ HasLine(m, "title") => c.text.title # <<>>
    /\ HasLine(m, "discount") => c.text.discount_text # <<>>
    /\ HasLine(m, "code") => c.text.code # <<>>
    /\ HasLine(m, "countries") => c.text.countries # <<>>
    /\ HasLine(m, "note") => c.text.note # <<>>
    /\ HasLine(m, "expires") => c.expires_at.k # "none"
    /\ HasLine(m, "link") => c.text.purchase_link # <<>>
    /\ Len(m) <= FACEBOOK_MESSAGE_MAX
    /\ FullLen(c) <= FACEBOOK_MESSAGE_MAX =>
           Len(m) = FullLen(c) /\ EndsWith(m, FooterText)
    /\ FullLen(c) > FACEBOOK_MESSAGE_MAX =>
           Len(m) = FACEBOOK_MESSAGE_MAX /\ EndsWith(m, Marker)

\* C16: the message of every coupon of the feed, and the message of every
\* post, has a line for a display field only if the field is present and
\* non-empty, ends with the footer when it is not truncated, is never longer
\* than FACEBOOK_MESSAGE_MAX, and ends with "..." when it is truncated.
C16_MessageContract ==
    /\ \A i \in 1..Len(feed) :
           \A m \in {make_message(feed[i])} : MessageOk(feed[i], m)
    /\ \A p \in Procs :
           run[p].nposts > 0 => MessageOk(run[p].next_coupon[1], run[p].message)

\* A post whose message was truncated, of a coupon with a code but no note.
C16_Witness ==
    \E p \in Procs :
        /\ run[p].nposts > 0
        /\ Len(run[p].message) = FACEBOOK_MESSAGE_MAX
        /\ EndsWith(run[p].message, Marker)
        /\ HasLine(run[p].message, "code")
        /\ run[p].next_coupon[1].text.note = <<>>
        /\ run[p].next_coupon[1].text.purchase_link # <<>>

\* What a run has done so far, read from its locals.
Fetched(r) == r.coupons # <<>>
Filtered(r) == r.valid # <<>>
Selected(r) == r.next_coupon # <<>>
Posted(r) == r.nposts > 0
Saved(r) == r.writes > 0
Synced(r) == r.sync # "none"
StepOrder(r) ==
    /\ Filtered(r) => Fetched(r)
    /\ r.valid_sorted # <<>> => Filtered(r)
    /\ Selected(r) => r.valid_sorted # <<>>
    /\ Posted(r) => Selected(r) /\ r.nposts = 1
    /\ Saved(r) => Posted(r) /\ r.resp = "ok" /\ r.writes = 1
    /\ Synced(r) => Saved(r) /\ r.pc = "done"
    /\ r.outcome = "noop" => ~Posted(r) /\ ~Saved(r) /\ ~Synced(r)

\* C17: a run posts only after it selected a coupon, writes the state file
\* only after the publish response was received, starts the sync only after
\* the save completed, and a run that exits at the fetch, filter or select
\* step posts nothing, writes nothing and syncs nothing.
C17_StrictStepOrder ==
    /\ [](\A p \in Procs : StepOrder(run[p]))
    /\ [][\A p \in Procs :
             /\ run'[p].nposts > run[p].nposts =>
                    run[p].pc = "publish" /\ Selected(run[p])
             /\ run[p].pc \in {"save_open", "save_dump"} /\ file' # file =>
                    run[p].resp = "ok" /\ Posted(run[p])
             /\ file' # file =>
                    \E q \in Procs : run[q].pc \in {"save_open", "save_dump"}
             /\ run'[p].sync # run[p].sync /\ Synced(run'[p]) =>
                    /\ run[p].pc = "sync"
                    /\ file = JsonFile(run[p].state, run[p].last_run)
             /\ run'[p].outcome = "noop" => file' = run'[p].file0]_vars

\* A run that went through every step, the sync included.
C17_Witness ==
    \E p \in Procs :
        /\ run[p].pc = "done"
        /\ run[p].sync = "pushed"
        /\ run[p].nposts = 1
        /\ run[p].writes = 1
        /\ file = JsonFile(run[p].state, run[p].last_run)

StrictlyAscending(s) == \A i, j \in 1..Len(s) : i < j => s[i] < s[j]

\* C18: starting from an absent state file, the published_ids list of the
\* state file is strictly ascending after every run: sorted and without a
\* duplicate id.
C18_PublishedIdsAscending ==
    /\ StrictlyAscending(file.published_ids)
    /\ \A p \in Procs : StrictlyAscending(run[p].state)

\* A committed run that added an id smaller than one already in the file.
C18_Witness ==
    \E p \in Procs :
        /\ run[p].pc = "done"
        /\ run[p].outcome = "committed"
        /\ file.kind = "json"
        /\ Len(file.published_ids) >= 2
        /\ Cid(p) \in Range(file.published_ids)
        /\ Cid(p) \notin Range(run[p].file0.published_ids)
        /\ Cid(p) < file.published_ids[Len(file.published_ids)]

\* The run has selected a coupon and is at or past the publish step.
HasSelected(p) ==
    run[p].pc \in {"publish", "save_open", "save_dump", "sync", "done"}
    /\ run[p].next_coupon # <<>>

\* C19: overlapping runs are not guarded against each other: two runs that
\* loaded the same persisted state select the same coupon, and a completed
\* save writes the saving run's own loaded ids plus the id it posted,
\* whatever another run has written to the file in the meantime.
C19_OverlapUnguarded ==
    /\ [](\A p, q \in Procs :
              HasSelected(p) /\ HasSelected(q) /\ run[p].file0 = run[q].file0 =>
                  /\ run[p].next_coupon = run[q].next_coupon
                  /\ run[p].reset = run[q].reset)
    /\ [][\A p \in Procs :
             run[p].pc = "save_dump" /\ run'[p].pc = "sync" =>
                 /\ file'.kind = "json"
                 /\ Range(file'.published_ids) = LeftBySelection(p) \cup {Cid(p)}]_vars

\* Both runs loaded the same state, both posted the same coupon, and both
\* saved: the file holds what the later save wrote.
C19_Witness ==
    /\ run[1].pc = "done" /\ run[2].pc = "done"
    /\ run[1].outcome = "committed" /\ run[2].outcome = "committed"
    /\ run[1].file0 = run[2].file0
    /\ run[1].nposts = 1 /\ run[2].nposts = 1
    /\ run[1].resp = "ok" /\ run[2].resp = "ok"
    /\ Cid(1) = Cid(2)
    /\ run[1].writes = 1 /\ run[2].writes = 1
    /\ file = JsonFile(run[2].state, run[2].last_run)

\* The positions of the ordered list that the runs of the streak posted.
PostedPositions == {hist[i].k : i \in 1..Len(hist)}

\* C20: with a fixed feed and every run committing, every valid coupon is
\* posted in some run.  The runs after a reset repeat the runs from the empty
\* published set, so a coupon is posted in some run exactly when it is posted
\* before the first reset: once the streak contains a reset, every position
\* of the ordered list has been posted.
C20_EveryValidCouponPosted ==
    ~dirty /\ hist # <<>> /\ (\E i \in 1..Len(hist) : hist[i].reset) =>
        \A k \in 1..hist[1].n : k \in PostedPositions
====
